---- MODULE Spec2Model ----
(***************************************************************************)
(* Volume_Berekenaar: NEN 2580 net / gross volume take-off from an IFC     *)
(* model (nen2580_inhoud_excel.py) and the web front end that runs it as a *)
(* background job (app.py).                                                *)
(*                                                                         *)
(* Numbers.  Every volume is an integer count of the unit U = 0.0002 m3.   *)
(* Mesh vertices lie on an integer grid whose cell is 0.1 m x 0.1 m x      *)
(* 0.12 m = 0.0012 m3 = 6 U, so that the signed-tetrahedron sum            *)
(* (sum of determinants / 6 cells) is the sum of determinants in U and a   *)
(* bounding box of integer extents dx,dy,dz is 6*dx*dy*dz U.  A value      *)
(* rounded to 3 decimals is an integer count of 0.001 m3 = 5 U; no         *)
(* multiple of U lies half way between two multiples of 0.001, so          *)
(* round(x, 3) never meets a tie.                                          *)
(*                                                                         *)
(* Strings that the code cuts or searches (paths, file names) are          *)
(* sequences of one-character strings; names that are only compared are    *)
(* TLA+ strings.                                                           *)
(***************************************************************************)
EXTENDS Integers, Sequences, FiniteSets, TLC

VARIABLES
    HAS_GEOM, HAS_TRIMESH, HAS_SCIPY,   \* module-level capability flags
    obj, names, qres,                   \* one call of get_quantity_volume_from_obj
    mesh, mres,                         \* one call of volume_from_mesh
    model,                              \* the opened IFC model
    net, gross,                         \* results of the two aggregators
    args, clock, fs, dirs, runs, outs,  \* runs of main: arguments, wall clock, files, directories
    thread, sub, results, polls,        \* web app: job threads, subprocesses, results folder
    testruns                            \* web app: /test-subprocess-run requests waiting for echo

flagVars == <<HAS_GEOM, HAS_TRIMESH, HAS_SCIPY>>
qtyVars  == <<obj, names, qres>>
meshVars == <<mesh, mres>>
coreVars == <<model, net, gross>>
mainVars == <<args, clock, fs, dirs, runs, outs>>
webVars  == <<thread, sub, results, polls, testruns>>
vars == <<flagVars, qtyVars, meshVars, coreVars, mainVars, webVars>>

----------------------------------------------------------------------------
(* Generic helpers *)

SeqUpTo(S, n) == UNION {[1..k -> S] : k \in 0..n}

Range(s) == {s[i] : i \in DOMAIN s}

RECURSIVE SumSeq(_)
SumSeq(s) == IF s = <<>> THEN 0 ELSE Head(s) + SumSeq(Tail(s))

Abs(x) == IF x < 0 THEN -x ELSE x

----------------------------------------------------------------------------
(* Python values read from IFC attributes *)

\* Python None in a string-valued attribute (Name).
None == "<None>"

\* A numeric or wrapped attribute value: a number, None, a non-numeric string,
\* or an attribute the entity does not have (reading it raises AttributeError).
NoneVal == [t |-> "None", v |-> 0]
Num(k)  == [t |-> "num", v |-> k]
Txt     == [t |-> "str", v |-> 0]
Absent  == [t |-> "absent", v |-> 0]

\* str.lower() on the names that occur in the models.
Lower(n) ==
    CASE n \in {"NetVolume", "NETVOLUME", "netvolume"}       -> "netvolume"
      [] n \in {"Volume", "VOLUME", "volume"}                -> "volume"
      [] n \in {"GrossVolume", "grossvolume", "GROSSVOLUME"} -> "grossvolume"
      [] n \in {"BrutoInhoud", "brutoinhoud"}                -> "brutoinhoud"
      [] n \in {"GrossFloorArea"}                            -> "grossfloorarea"
      [] n \in {"Reference"}                                 -> "reference"
      [] OTHER                                               -> n

\* q.Name in names or q.Name.lower() in [n.lower() for n in names]
NameMatches(n, cand) ==
    \/ n \in Range(cand)
    \/ Lower(n) \in {Lower(c) : c \in Range(cand)}

----------------------------------------------------------------------------
(* get_quantity_volume_from_obj *)

\* Outcome of looking at one quantity / property or one relationship:
\* "next" (no match, keep scanning), "ret" (return v), "raise" (an exception
\* that no inner try catches).
KeepScanning == [st |-> "next", v |-> 0]
Returns(k)   == [st |-> "ret", v |-> k]
Raises       == [st |-> "raise", v |-> 0]

\* try: return float(x.NominalValue.wrappedValue) / except Exception: pass
NominalOutcome(x) ==
    IF x.NominalValue.t = "num" THEN Returns(x.NominalValue.v) ELSE KeepScanning

\* One quantity of an IfcElementQuantity (lines 63-70).
QuantityOutcome(q, cand) ==
    IF q.is_a # "IfcQuantityVolume" THEN KeepScanning
    ELSE IF q.Name = None THEN Raises              \* None.lower()
    ELSE IF ~NameMatches(q.Name, cand) THEN KeepScanning
    ELSE IF q.VolumeValue.t \notin {"absent", "None"} THEN
            (IF q.VolumeValue.t = "num" THEN Returns(q.VolumeValue.v) ELSE Raises)
    ELSE NominalOutcome(q)

\* One property of an IfcPropertySet (lines 73-78).
PropertyOutcome(p, cand) ==
    IF p.Name = None THEN Raises                   \* None.lower()
    ELSE IF ~NameMatches(p.Name, cand) THEN KeepScanning
    ELSE NominalOutcome(p)

RECURSIVE ScanQuantities(_, _, _)
ScanQuantities(qs, i, cand) ==
    IF i > Len(qs) THEN KeepScanning
    ELSE LET o == QuantityOutcome(qs[i], cand)
         IN  IF o.st = "next" THEN ScanQuantities(qs, i + 1, cand) ELSE o

RECURSIVE ScanProperties(_, _, _)
ScanProperties(ps, i, cand) ==
    IF i > Len(ps) THEN KeepScanning
    ELSE LET o == PropertyOutcome(ps[i], cand)
         IN  IF o.st = "next" THEN ScanProperties(ps, i + 1, cand) ELSE o

\* The body of the loop over obj.IsDefinedBy for one relationship (lines 57-78).
RelOutcome(rel, cand) ==
    IF rel.rpd = "None" THEN KeepScanning
    ELSE LET a == IF rel.rpd = "IfcElementQuantity"
                  THEN ScanQuantities(rel.Quantities, 1, cand) ELSE KeepScanning
         IN  IF a.st # "next" THEN a
             ELSE IF rel.rpd = "IfcPropertySet"
                  THEN ScanProperties(rel.HasProperties, 1, cand) ELSE KeepScanning

RECURSIVE ScanRels(_, _, _)
ScanRels(rels, i, cand) ==
    IF i > Len(rels) THEN KeepScanning
    ELSE LET o == RelOutcome(rels[i], cand)
         IN  IF o.st = "next" THEN ScanRels(rels, i + 1, cand) ELSE o

\* The whole function: the outer try turns any exception into None.
get_quantity_volume_from_obj(e, cand) ==
    IF Len(e.IsDefinedBy) = 0 THEN NoneVal
    ELSE LET o == ScanRels(e.IsDefinedBy, 1, cand)
         IN  IF o.st = "ret" THEN Num(o.v) ELSE NoneVal

----------------------------------------------------------------------------
(* volume_from_mesh *)

\* dot(a, cross(b, c)): six times the signed volume, in grid cells, of the
\* tetrahedron (origin, a, b, c); the signed volume itself in units U.
Det3(a, b, c) ==
      a[1] * (b[2] * c[3] - b[3] * c[2])
    - a[2] * (b[1] * c[3] - b[3] * c[1])
    + a[3] * (b[1] * c[2] - b[2] * c[1])

\* verts[f[0]], verts[f[1]], verts[f[2]] with 0-based indices into a numpy
\* array of n rows: an index in -n..-1 counts from the end, an index outside
\* -n..n-1 raises IndexError.
FaceInRange(vs, f) == \A k \in 1..3 : f[k] >= -Len(vs) /\ f[k] < Len(vs)

\* verts[i] for an index in range.
Vertex(vs, i) == vs[(i % Len(vs)) + 1]

RECURSIVE SignedSum(_, _, _)
SignedSum(vs, fs_, i) ==
    IF i > Len(fs_) THEN 0
    ELSE Det3(Vertex(vs, fs_[i][1]), Vertex(vs, fs_[i][2]), Vertex(vs, fs_[i][3]))
         + SignedSum(vs, fs_, i + 1)

\* The cross-product component b[j]*c[k] - b[k]*c[j] is exactly 0.0 in double
\* precision: both products are zero, or they are one and the same product.
CrossExact0(b, c, j, k) ==
    \/ b[j] * c[k] = 0 /\ b[k] * c[j] = 0
    \/ b[j] = c[j] /\ b[k] = c[k]

\* np.dot(a, np.cross(b, c)) is exactly 0.0 in double precision: every
\* component of a meets a zero or is zero.
TermExact0(a, b, c) ==
    /\ a[1] = 0 \/ CrossExact0(b, c, 2, 3)
    /\ a[2] = 0 \/ CrossExact0(b, c, 3, 1)
    /\ a[3] = 0 \/ CrossExact0(b, c, 1, 2)

\* Line 117 adds nothing but exact zeros to v.
FloatExact0(vs, fs_) ==
    \A i \in DOMAIN fs_ :
        TermExact0(Vertex(vs, fs_[i][1]), Vertex(vs, fs_[i][2]), Vertex(vs, fs_[i][3]))

\* The sum of line 117 is computed in double precision on coordinates in
\* metres.  When the exact sum is zero but its terms are not, the rounded
\* products need not cancel and v may end as a residue of the order of
\* 1e-18 m3: zero in units U, yet v > 0 at line 119.  Whether it does is fixed
\* by the binary values of the coordinates; m.residue records it.
CanLeaveResidue(vs, fs_) ==
    /\ \A i \in DOMAIN fs_ : FaceInRange(vs, fs_[i])
    /\ SignedSum(vs, fs_, 1) = 0
    /\ ~FloatExact0(vs, fs_)

\* SignedTier with v = abs(v) left out.
SignedTier_NoAbs(m) ==
    IF \E i \in DOMAIN m.faces : ~FaceInRange(m.verts, m.faces[i])
    THEN [err |-> TRUE, volume |-> 0, positive |-> FALSE]
    ELSE [err |-> FALSE, volume |-> SignedSum(m.verts, m.faces, 1),
          positive |-> SignedSum(m.verts, m.faces, 1) > 0]

\* The signed-volume fallback (lines 113-122): abs of the accumulated sum, or
\* an exception swallowed by the try.
SignedTier(m) ==
    IF \E i \in DOMAIN m.faces : ~FaceInRange(m.verts, m.faces[i])
    THEN [err |-> TRUE, volume |-> 0, positive |-> FALSE]
    ELSE [err |-> FALSE, volume |-> Abs(SignedSum(m.verts, m.faces, 1)),
          positive |-> SignedSum(m.verts, m.faces, 1) # 0 \/ m.residue]

MinCoord(vs, k) == CHOOSE x \in {vs[i][k] : i \in DOMAIN vs} :
                       \A j \in DOMAIN vs : x <= vs[j][k]
MaxCoord(vs, k) == CHOOSE x \in {vs[i][k] : i \in DOMAIN vs} :
                       \A j \in DOMAIN vs : x >= vs[j][k]

\* float(np.prod(maxs - mins)) of a non-empty vertex array, in units U.
BBoxVolume(vs) ==
    6 * (MaxCoord(vs, 1) - MinCoord(vs, 1))
      * (MaxCoord(vs, 2) - MinCoord(vs, 2))
      * (MaxCoord(vs, 3) - MinCoord(vs, 3))

\* The trimesh tier (lines 104-110): m.trimesh is what building
\* trimesh.Trimesh(vertices, faces, process=True) and reading .volume gives for
\* this mesh (an exception, or a volume of any sign).
TrimeshTier(m) == m.trimesh

\* volume_from_mesh: the value returned and the tiers attempted, in order.
volume_from_mesh(m) ==
    IF Len(m.verts) = 0 \/ Len(m.faces) = 0
    THEN [value |-> 0, tried |-> <<>>]
    ELSE IF HAS_TRIMESH /\ ~TrimeshTier(m).err /\ TrimeshTier(m).volume > 0
    THEN [value |-> TrimeshTier(m).volume, tried |-> <<"trimesh">>]
    ELSE LET pre == IF HAS_TRIMESH THEN <<"trimesh">> ELSE <<>>
             s   == SignedTier(m)
         IN  IF ~s.err /\ s.positive
             THEN [value |-> s.volume, tried |-> pre \o <<"signed">>]
             ELSE [value |-> BBoxVolume(m.verts),
                   tried |-> pre \o <<"signed", "bbox">>]

----------------------------------------------------------------------------
(* compute_net_volume_spaces *)

NetNames == <<"NetVolume", "Volume">>

\* str.strip() on the space names that occur in the models.
Strip(n) ==
    CASE n = "  "    -> ""
      [] n = " Hal " -> "Hal"
      [] OTHER       -> n

\* (sp.Name or "").strip() or sp.GlobalId
DisplayName(sp) ==
    LET n == Strip(IF sp.Name = None THEN "" ELSE sp.Name)
    IN  IF n = "" THEN sp.GlobalId ELSE n

\* round(x, 3) of a volume of x units U, as a count of 0.001 m3 (= 5 U).
Round3(x) == (x + 2) \div 5

\* shape_to_mesh: the vertex and face arrays of the shape, or two empty arrays
\* when reading shape.geometry fails.
shape_to_mesh(sh) ==
    IF sh.geometry = "bad"
    THEN [verts |-> <<>>, faces |-> <<>>, trimesh |-> sh.trimesh, residue |-> FALSE]
    ELSE [verts |-> sh.verts, faces |-> sh.faces, trimesh |-> sh.trimesh,
          residue |-> sh.residue]

\* ResolveSpace whose failure branches set vol = 0.0 but leave the tag that
\* line 139 chose.
ResolveSpace_KeepTag(sp) ==
    LET q == get_quantity_volume_from_obj(sp, NetNames)
    IN  IF q.t = "num" THEN [vol |-> q.v, method |-> "Quantity(Net/Volume)"]
        ELSE IF HAS_GEOM THEN
            IF sp.shape.create = "raise"
            THEN [vol |-> 0, method |-> "Geometry(mesh)"]
            ELSE LET m == shape_to_mesh(sp.shape)
                 IN  IF Len(m.verts) > 0 /\ Len(m.faces) > 0
                     THEN [vol |-> volume_from_mesh(m).value,
                           method |-> "Geometry(mesh)"]
                     ELSE [vol |-> 0, method |-> "Geometry(mesh)"]
        ELSE [vol |-> 0, method |-> "Unavail"]

\* The volume and method tag of one space (lines 138-162).
ResolveSpace(sp) ==
    LET q == get_quantity_volume_from_obj(sp, NetNames)
    IN  IF q.t = "num" THEN [vol |-> q.v, method |-> "Quantity(Net/Volume)"]
        ELSE IF HAS_GEOM THEN
            IF sp.shape.create = "raise"
            THEN [vol |-> 0, method |-> "Unavail"]
            ELSE LET m == shape_to_mesh(sp.shape)
                 IN  IF Len(m.verts) > 0 /\ Len(m.faces) > 0
                     THEN [vol |-> volume_from_mesh(m).value,
                           method |-> "Geometry(mesh)"]
                     ELSE [vol |-> 0, method |-> "Unavail"]
        ELSE [vol |-> 0, method |-> "Unavail"]

\* The row appended for one space (lines 164-170).
SpaceRow(sp, r) ==
    [IfcType  |-> "IfcSpace",
     Naam     |-> DisplayName(sp),
     GlobalId |-> sp.GlobalId,
     Netto_m3 |-> Round3(r.vol),
     Methode  |-> r.method]

\* NetLoop that skips a space whose volume could not be resolved.
RECURSIVE NetLoop_SkipUnavail(_, _, _, _)
NetLoop_SkipUnavail(spaces, i, total, rows) ==
    IF i > Len(spaces) THEN [net_total |-> total, rows |-> rows]
    ELSE LET r == ResolveSpace(spaces[i])
         IN  IF r.method = "Unavail"
             THEN NetLoop_SkipUnavail(spaces, i + 1, total, rows)
             ELSE NetLoop_SkipUnavail(spaces, i + 1, total + r.vol,
                                      Append(rows, SpaceRow(spaces[i], r)))

\* NetLoop that rounds each volume before adding it to the total.
RECURSIVE NetLoop_SumRounded(_, _, _, _)
NetLoop_SumRounded(spaces, i, total, rows) ==
    IF i > Len(spaces) THEN [net_total |-> total, rows |-> rows]
    ELSE LET r == ResolveSpace(spaces[i])
         IN  NetLoop_SumRounded(spaces, i + 1, total + 5 * Round3(r.vol),
                                Append(rows, SpaceRow(spaces[i], r)))

\* The loop over the spaces from the i-th on, given the total and rows so far.
RECURSIVE NetLoop(_, _, _, _)
NetLoop(spaces, i, total, rows) ==
    IF i > Len(spaces) THEN [net_total |-> total, rows |-> rows]
    ELSE LET r == ResolveSpace(spaces[i])
         IN  NetLoop(spaces, i + 1, total + r.vol,
                     Append(rows, SpaceRow(spaces[i], r)))

compute_net_volume_spaces(md) == NetLoop(md.spaces, 1, 0, <<>>)

----------------------------------------------------------------------------
(* collect_building_vertices and compute_gross_volume *)

GrossNames == <<"GrossVolume", "BrutoInhoud", "Volume">>

\* model.by_type(cls) over the envelope elements, in model order; IfcWall has
\* the subtype IfcWallStandardCase.
IsA(e, cls) == e.cls = cls \/ (cls = "IfcWall" /\ e.cls = "IfcWallStandardCase")

RECURSIVE by_type(_, _)
by_type(es, cls) ==
    IF es = <<>> THEN <<>>
    ELSE (IF IsA(Head(es), cls) THEN <<Head(es)>> ELSE <<>>) \o by_type(Tail(es), cls)

\* add(e): the vertices create_shape and shape_to_mesh give for e, nothing
\* when create_shape raises.
ElementVerts(e) ==
    IF e.shape.create = "raise" THEN <<>> ELSE shape_to_mesh(e.shape).verts

RECURSIVE VertsOf(_)
VertsOf(es) ==
    IF es = <<>> THEN <<>> ELSE ElementVerts(Head(es)) \o VertsOf(Tail(es))

\* Walls whose IsExternal is True or None.
RECURSIVE ExternalWalls(_)
ExternalWalls(ws) ==
    IF ws = <<>> THEN <<>>
    ELSE (IF Head(ws).IsExternal \in {"True", "None"} THEN <<Head(ws)>> ELSE <<>>)
         \o ExternalWalls(Tail(ws))

collect_building_vertices(md) ==
    IF ~HAS_GEOM THEN <<>>
    ELSE VertsOf(ExternalWalls(by_type(md.elements, "IfcWallStandardCase")))
         \o VertsOf(ExternalWalls(by_type(md.elements, "IfcWall")))
         \o VertsOf(by_type(md.elements, "IfcSlab"))
         \o VertsOf(by_type(md.elements, "IfcRoof"))

\* Tier 1 (lines 201-204): the first building that yields a quantity.
RECURSIVE BuildingTier(_, _)
BuildingTier(bs, i) ==
    IF i > Len(bs) THEN [found |-> FALSE, value |-> 0]
    ELSE LET q == get_quantity_volume_from_obj(bs[i], GrossNames)
         IN  IF q.t = "num" THEN [found |-> TRUE, value |-> q.v]
             ELSE BuildingTier(bs, i + 1)

\* Tier 2 (lines 205-209): the sum over the storeys that yield a quantity.
RECURSIVE StoreyLoop(_, _, _, _)
StoreyLoop(ss, i, gross_sum, had) ==
    IF i > Len(ss) THEN [gross_sum |-> gross_sum, had |-> had]
    ELSE LET q == get_quantity_volume_from_obj(ss[i], GrossNames)
         IN  IF q.t = "num" THEN StoreyLoop(ss, i + 1, gross_sum + q.v, TRUE)
             ELSE StoreyLoop(ss, i + 1, gross_sum, had)

\* StoreyTierSucceeds without the test gross_sum > 0.
StoreyTierSucceeds_HadOnly(s) == s.had

\* if had and gross_sum > 0 (line 210)
StoreyTierSucceeds(s) == s.had /\ s.gross_sum > 0

\* HullTierSucceeds with hull.volume >= 0 for hull.volume > 0.
HullTierSucceeds_NonNegative(md) == HAS_SCIPY /\ ~md.hull.err /\ md.hull.volume >= 0

\* Lines 216-222: md.hull is what scipy's ConvexHull(verts) gives for the
\* collected vertices (an exception, or a hull with a volume).
HullTierSucceeds(md) == HAS_SCIPY /\ ~md.hull.err /\ md.hull.volume > 0

\* compute_gross_volume: value, method tag, and the tiers entered, in order.
\* "Sum Storey:GrossVolume" stands for the source's tag with a capital sigma.
compute_gross_volume(md) ==
    LET b == BuildingTier(md.buildings, 1)
    IN  IF b.found
        THEN [value |-> b.value, method |-> "IfcBuilding:GrossVolume",
              consulted |-> <<"IfcBuilding">>]
        ELSE
        LET s == StoreyLoop(md.storeys, 1, 0, FALSE)
        IN  IF StoreyTierSucceeds(s)
            THEN [value |-> s.gross_sum, method |-> "Sum Storey:GrossVolume",
                  consulted |-> <<"IfcBuilding", "Storey">>]
            ELSE
            LET verts == collect_building_vertices(md)
                pre   == <<"IfcBuilding", "Storey", "Geometry">>
            IN  IF Len(verts) > 0
                THEN IF HullTierSucceeds(md)
                     THEN [value |-> md.hull.volume, method |-> "ConvexHull(external)",
                           consulted |-> pre \o <<"ConvexHull">>]
                     ELSE [value |-> BBoxVolume(verts),
                           method |-> "BoundingBox(external)",
                           consulted |-> pre \o (IF HAS_SCIPY THEN <<"ConvexHull">> ELSE <<>>)
                                             \o <<"BoundingBox">>]
                ELSE [value |-> 0, method |-> "None", consulted |-> pre]

----------------------------------------------------------------------------
(* Strings as sequences of characters *)

StartsWith(s, p) == Len(p) <= Len(s) /\ SubSeq(s, 1, Len(p)) = p
EndsWith(s, p)   == Len(p) <= Len(s) /\ SubSeq(s, Len(s) - Len(p) + 1, Len(s)) = p

\* s.replace(old, new) from position i on: every non-overlapping occurrence,
\* left to right.
RECURSIVE ReplaceFrom(_, _, _, _)
ReplaceFrom(s, i, old, new) ==
    IF i > Len(s) THEN <<>>
    ELSE IF i + Len(old) - 1 <= Len(s) /\ SubSeq(s, i, i + Len(old) - 1) = old
    THEN new \o ReplaceFrom(s, i + Len(old), old, new)
    ELSE <<s[i]>> \o ReplaceFrom(s, i + 1, old, new)

Replace(s, old, new) == ReplaceFrom(s, 1, old, new)

\* os.path.basename: what follows the last "/".
RECURSIVE Basename(_)
Basename(p) ==
    IF \E i \in DOMAIN p : p[i] = "/"
    THEN Basename(SubSeq(p, (CHOOSE i \in DOMAIN p : p[i] = "/") + 1, Len(p)))
    ELSE p

\* p.rfind('/') + 1: the position of the last "/", 0 when there is none.
LastSlash(p) ==
    IF \E i \in DOMAIN p : p[i] = "/"
    THEN CHOOSE i \in DOMAIN p : p[i] = "/" /\ \A j \in DOMAIN p : j > i => p[j] # "/"
    ELSE 0

\* head.rstrip('/')
RECURSIVE RStripSlash(_)
RStripSlash(p) ==
    IF p # <<>> /\ p[Len(p)] = "/" THEN RStripSlash(SubSeq(p, 1, Len(p) - 1)) ELSE p

\* os.path.dirname: what precedes the last "/", without trailing slashes
\* unless it is made of slashes only.
Dirname(p) ==
    LET head == SubSeq(p, 1, LastSlash(p))
    IN  IF \E i \in DOMAIN head : head[i] # "/" THEN RStripSlash(head) ELSE head

\* The directories above p (p without "/" has none).
Ancestors(p) ==
    {RStripSlash(SubSeq(p, 1, i)) : i \in {j \in DOMAIN p : p[j] = "/"}} \ {<<>>}

\* os.path.exists
Exists(files, ds, p) == p \in DOMAIN files \/ p \in ds

\* os.makedirs(p, exist_ok=True) raises when a component above p is a file.
MakeDirsRaises(files, p) == \E a \in Ancestors(p) : a \in DOMAIN files

\* os.makedirs(p, exist_ok=True): p and every missing directory above it.
MakeDirs(ds, p) == ds \cup {p} \cup Ancestors(p)

\* open(path, 'w') succeeds when path is not a directory and its parent
\* directory exists; a path without "/" lies in the working directory.
CanOpen(ds, path) ==
    /\ path \notin ds
    /\ Dirname(path) = <<>> \/ Dirname(path) \in ds

----------------------------------------------------------------------------
(* main *)

DotCsv        == <<".", "c", "s", "v">>
SummarySuffix == <<"_", "s", "u", "m", "m", "a", "r", "y", ".", "c", "s", "v">>
SpacesSuffix  == <<"_", "s", "p", "a", "c", "e", "s", ".", "c", "s", "v">>

\* args.output.replace('.csv', '_summary.csv') and ... '_spaces.csv' (lines 259-260)
SummaryFile(output) == Replace(output, DotCsv, SummarySuffix)
SpacesFile(output)  == Replace(output, DotCsv, SpacesSuffix)

\* "Netto_inhoud_m3" stands for the source's "Netto_inhoud_m3 (sigma IfcSpace)".
SummaryHeader == <<"Datum", "IFC_bestand", "Bruto_inhoud_m3", "Bruto_methode",
                   "Netto_inhoud_m3", "Ruimtes_geteld">>
SpacesHeader  == <<"IfcType", "Naam", "GlobalId", "Netto_m3", "Methode">>

\* The summary row (lines 269-276); now is the wall clock in minutes, which is
\* all that strftime("%Y-%m-%d %H:%M") keeps of it.
SummaryRecord(a, now, n, g) ==
    [Datum           |-> now,
     IFC_bestand     |-> Basename(a.ifc),
     Bruto_inhoud_m3 |-> Round3(g.value),
     Bruto_methode   |-> g.method,
     Netto_inhoud_m3 |-> Round3(n.net_total),
     Ruimtes_geteld  |-> Len(n.rows)]

\* WriteFile that opens with mode 'a': the lines are added to an existing file.
WriteFile_Append(files, ds, path, lines) ==
    IF ~CanOpen(ds, path) THEN [raised |-> TRUE, files |-> files]
    ELSE [raised |-> FALSE,
          files  |-> [p \in (DOMAIN files) \cup {path} |->
                        IF p = path
                        THEN (IF path \in DOMAIN files THEN files[path] \o lines
                              ELSE lines)
                        ELSE files[p]]]

\* with open(path, 'w') as f: write the lines.  open raises (FileNotFoundError,
\* IsADirectoryError) when the file cannot be opened and nothing is written;
\* otherwise the file is created or truncated.
WriteFile(files, ds, path, lines) ==
    IF ~CanOpen(ds, path) THEN [raised |-> TRUE, files |-> files]
    ELSE [raised |-> FALSE,
          files  |-> [p \in (DOMAIN files) \cup {path} |->
                        IF p = path THEN lines ELSE files[p]]]

\* How a run of main ended, "ok", "exit" (sys.exit(1)) or "raised" (an
\* uncaught exception), with the files and directories it left.
Ended(files, ds, status) == [files |-> files, dirs |-> ds, status |-> status]

\* main, lines 279-287: the per-space table, written when there are rows, to
\* the files w1 left by the summary step.
WriteSpaces(w1, ds, a, n) ==
    IF w1.raised THEN Ended(w1.files, ds, "raised")
    ELSE IF n.rows = <<>> THEN Ended(w1.files, ds, "ok")
    ELSE LET w2 == WriteFile(w1.files, ds, SpacesFile(a.output),
                             <<SpacesHeader>> \o n.rows)
         IN  Ended(w2.files, ds, IF w2.raised THEN "raised" ELSE "ok")

\* main, lines 258-287: the two outputs for net result n and gross result g.
WriteOutputs(files, ds, a, now, n, g) ==
    WriteSpaces(WriteFile(files, ds, SummaryFile(a.output),
                          <<SummaryHeader, SummaryRecord(a, now, n, g)>>),
                ds, a, n)

\* main, lines 239-287: after the output folder has been seen to.
MainBody(files, ds, md, a, now) ==
    IF ~a.ifc_exists THEN Ended(files, ds, "exit")
    ELSE WriteOutputs(files, ds, a, now,
                      compute_net_volume_spaces(md), compute_gross_volume(md))

\* main, lines 233-236: the directories after the output folder od has been
\* made, when it is named and does not exist.
EnsureOutputDir(files, ds, od) ==
    IF od = <<>> \/ Exists(files, ds, od) THEN ds ELSE MakeDirs(ds, od)

\* main, line 236: os.makedirs raises.
EnsureOutputDirRaises(files, ds, od) ==
    od # <<>> /\ ~Exists(files, ds, od) /\ MakeDirsRaises(files, od)

\* main: a run started at time now on model md with arguments a.
main(files, ds, md, a, now) ==
    IF EnsureOutputDirRaises(files, ds, Dirname(a.output))
    THEN Ended(files, ds, "raised")
    ELSE MainBody(files, EnsureOutputDir(files, ds, Dirname(a.output)), md, a, now)

----------------------------------------------------------------------------
(* app.py: index, run_script, logs *)

ResultFolder == <<"r", "e", "s", "u", "l", "t", "s", "/">>
ResultSuffix == <<"_", "r", "e", "s", "u", "l", "t", ".", "x", "l", "s", "x">>
DotXlsx      == <<".", "x", "l", "s", "x">>

\* str(uuid.uuid4()) of the t-th upload: distinct strings of one length.
UidChars == <<"a", "b", "c", "d">>
Uid(t) == <<UidChars[t]>>

\* result_filename and result_path of index (lines 54-55)
ResultFilename(t) == Uid(t) \o ResultSuffix
ResultPath(t)     == ResultFolder \o ResultFilename(t)

\* A result file left in the folder by a task of an earlier run of the app.
LeftoverResult == ResultFolder \o <<"z">> \o ResultSuffix

\* test_file of test_subprocess and of test_subprocess_run (lines 88, 96)
TestSubprocessFile ==
    ResultFolder \o <<"t", "e", "s", "t", "_", "s", "u", "b", "p", "r", "o", "c", "e", "s", "s", ".", "t", "x", "t">>
TestSubprocessRunFile ==
    ResultFolder \o <<"t", "e", "s", "t", "_", "s", "u", "b", "p", "r", "o", "c", "e", "s", "s", "_", "r", "u", "n", ".", "t", "x", "t">>

\* os.listdir(RESULT_FOLDER): the names of the files present in the folder.
ListDir(files) == {Basename(p) : p \in {f \in files : StartsWith(f, ResultFolder)}}

\* done of logs(task_id) (lines 75-83)
LogsDone(files, t) ==
    \E fname \in ListDir(files) : StartsWith(fname, Uid(t)) /\ EndsWith(fname, DotXlsx)

----------------------------------------------------------------------------
(* Bounds and sample data *)

MaxRels      == 2    \* relationships in IsDefinedBy of the resolved entity
MaxVerts     == 3    \* vertices of a mesh handed to volume_from_mesh
MaxFaces     == 1    \* triangles of a mesh handed to volume_from_mesh
MaxSpaces    == 2    \* IfcSpace entities of a model
MaxBuildings == 1    \* IfcBuilding entities of a model
MaxStoreys   == 1    \* IfcBuildingStorey entities of a model
MaxElements  == 1    \* walls, slabs and roofs of a model
MaxClock     == 2    \* minutes the wall clock may advance
MaxRuns      == 2    \* runs of main on the same model
MaxTasks     == 2    \* uploads handled by the web app
MaxTestRuns  == 1    \* /test-subprocess-run requests in progress at once

\* IFC entities as the code reads them
QV(n, vv) == [is_a |-> "IfcQuantityVolume", Name |-> n, VolumeValue |-> vv,
              NominalValue |-> Absent]
QA(n)     == [is_a |-> "IfcQuantityArea", Name |-> n, VolumeValue |-> Absent,
              NominalValue |-> Absent]
PV(n, nv) == [is_a |-> "IfcPropertySingleValue", Name |-> n, VolumeValue |-> Absent,
              NominalValue |-> nv]
ElementQuantity(qs) == [rpd |-> "IfcElementQuantity", Quantities |-> qs,
                        HasProperties |-> <<>>]
PropertySet(ps)     == [rpd |-> "IfcPropertySet", Quantities |-> <<>>,
                        HasProperties |-> ps]
\* a relationship without RelatingPropertyDefinition (IfcRelDefinesByType)
RelNoDefinition     == [rpd |-> "None", Quantities |-> <<>>, HasProperties |-> <<>>]
\* a definition that is neither a quantity set nor a property set
RelOtherDefinition  == [rpd |-> "Other", Quantities |-> <<>>, HasProperties |-> <<>>]

QuantitySamples ==
    { QV("NetVolume", Num(5)), QV("netvolume", Num(2)), QV("GrossVolume", Num(7)),
      QV(None, Num(5)), QV("NetVolume", NoneVal), QV("Volume", Txt),
      QA("NetVolume") }

PropertySamples ==
    { PV("Volume", Num(3)), PV("Volume", Txt), PV(None, Num(3)),
      PV("Reference", Num(3)), PV("NetVolume", NoneVal) }

RelKinds ==
    {RelNoDefinition, RelOtherDefinition}
    \cup {ElementQuantity(qs) : qs \in SeqUpTo(QuantitySamples, 1)}
    \cup {PropertySet(ps) : ps \in SeqUpTo(PropertySamples, 1)}
    \cup { ElementQuantity(<<QV("NetVolume", NoneVal), QV("Volume", Num(5))>>),
           PropertySet(<<PV("Volume", Txt), PV("NetVolume", Num(2))>>) }

DefaultNames == <<"GrossVolume", "NetVolume", "Volume">>
CandidateNames == {DefaultNames, NetNames, GrossNames}

\* trimesh / scipy outcomes
LibRaises == [err |-> TRUE, volume |-> 0]
LibVolume(v) == [err |-> FALSE, volume |-> v]

Points == {<<0, 0, 0>>, <<1, 0, 0>>, <<0, 1, 0>>, <<0, 0, 1>>, <<1, 1, 1>>,
           <<0, 1, 3>>}
FaceSamples == {<<0, 1, 2>>, <<0, 2, 1>>, <<1, 2, 3>>, <<0, 1, -1>>, <<-5, 0, 1>>}
TrimeshOutcomes == {LibRaises, LibVolume(-1), LibVolume(0), LibVolume(4)}

Shape(c, g, vs, fcs, tm) ==
    [create |-> c, geometry |-> g, verts |-> vs, faces |-> fcs, trimesh |-> tm,
     residue |-> FALSE]

TetraVerts == << <<0, 0, 0>>, <<1, 0, 0>>, <<0, 1, 0>>, <<0, 0, 1>> >>
TetraFaces == << <<0, 2, 1>>, <<0, 1, 3>>, <<0, 3, 2>>, <<1, 2, 3>> >>
FlatVerts  == << <<0, 0, 0>>, <<1, 0, 0>>, <<0, 1, 0>>, <<1, 1, 0>> >>
FlatFaces  == << <<0, 1, 2>>, <<1, 3, 2>> >>
SkewVerts  == << <<0, 0, 0>>, <<1, 1, 0>>, <<0, 1, 1>> >>
OpenVerts  == << <<1, 0, 0>>, <<0, 1, 0>>, <<0, 0, 1>> >>
TopVerts   == << <<0, 0, 1>>, <<1, 0, 1>>, <<0, 1, 1>> >>

ShapeRaises  == Shape("raise", "ok", <<>>, <<>>, LibRaises)
ShapeBad     == Shape("ok", "bad", <<>>, <<>>, LibRaises)
ShapeEmpty   == Shape("ok", "ok", <<>>, <<>>, LibRaises)
ShapeNoFaces == Shape("ok", "ok", OpenVerts, <<>>, LibRaises)
ShapeTetra   == Shape("ok", "ok", TetraVerts, TetraFaces, LibVolume(1))
ShapeFlat    == Shape("ok", "ok", FlatVerts, FlatFaces, LibVolume(0))
ShapeSkew    == Shape("ok", "ok", SkewVerts, << <<0, 1, 2>> >>, LibVolume(-1))
ShapeOpen    == Shape("ok", "ok", OpenVerts, << <<0, 2, 1>> >>, LibRaises)
ShapeTop     == Shape("ok", "ok", TopVerts, << <<0, 1, 2>> >>, LibVolume(0))

DefsNone  == <<>>
DefsNet5  == <<ElementQuantity(<<QV("NetVolume", Num(5))>>)>>
DefsNet3  == <<PropertySet(<<PV("Volume", Num(3))>>)>>
DefsGross == <<ElementQuantity(<<QV("GrossVolume", Num(7))>>)>>
DefsBad   == <<PropertySet(<<PV(None, Num(3))>>),
               ElementQuantity(<<QV("NetVolume", Num(5))>>)>>

SpaceKind(n, d, sh) == [Name |-> n, IsDefinedBy |-> d, shape |-> sh]

SpaceKinds ==
    { SpaceKind(" Hal ", DefsNet5, ShapeTetra),
      SpaceKind(None, DefsNet3, ShapeRaises),
      SpaceKind("  ", DefsNone, ShapeTetra),
      SpaceKind("Hal", DefsNone, ShapeFlat),
      SpaceKind(None, DefsNone, ShapeEmpty),
      SpaceKind("Hal", DefsGross, ShapeRaises),
      SpaceKind(" Hal ", DefsBad, ShapeOpen),
      SpaceKind(None, DefsNone, ShapeSkew),
      SpaceKind("  ", DefsNone, ShapeBad),
      SpaceKind("Hal", DefsNone, ShapeNoFaces) }

\* GlobalId of the i-th space of a model: distinct strings.
Gids == <<"g1", "g2", "g3", "g4">>

WithIds(kinds) ==
    [i \in DOMAIN kinds |->
        [GlobalId |-> Gids[i], Name |-> kinds[i].Name,
         IsDefinedBy |-> kinds[i].IsDefinedBy, shape |-> kinds[i].shape]]

Entity(d) == [IsDefinedBy |-> d]

GrossDefs ==
    { DefsNone,
      <<ElementQuantity(<<QV("GrossVolume", Num(0))>>)>>,
      <<ElementQuantity(<<QV("GrossVolume", Num(5))>>)>> }

Element(c, x, sh) == [cls |-> c, IsExternal |-> x, shape |-> sh]

ElementKinds ==
    { Element("IfcWallStandardCase", "True", ShapeTetra),
      Element("IfcWall", "False", ShapeTetra),
      Element("IfcWall", "None", ShapeFlat),
      Element("IfcWall", "True", ShapeRaises),
      Element("IfcSlab", "None", ShapeFlat),
      Element("IfcSlab", "None", ShapeTetra),
      Element("IfcRoof", "None", ShapeTop),
      Element("IfcRoof", "None", ShapeEmpty) }

\* Vertices that span no volume: all in one plane.
Degenerate(vs) ==
    \A a \in Range(vs), b \in Range(vs), c \in Range(vs), d \in Range(vs) :
        Det3(<<b[1] - a[1], b[2] - a[2], b[3] - a[3]>>,
             <<c[1] - a[1], c[2] - a[2], c[3] - a[3]>>,
             <<d[1] - a[1], d[2] - a[2], d[3] - a[3]>>) = 0

\* What ConvexHull(verts) can give: for vertices in one plane an exception or a
\* hull of volume 0, otherwise a positive volume within the bounding box.  The
\* hull is computed only when scipy is present and vertices were collected.
HullOutcomes(vs) ==
    IF ~HAS_SCIPY \/ Len(vs) = 0 THEN {LibRaises}
    ELSE IF Degenerate(vs) THEN {LibRaises, LibVolume(0)}
    ELSE {LibVolume(v) : v \in 1..BBoxVolume(vs)}

Model(sps, bs, ss, es, h) ==
    [spaces |-> sps, buildings |-> bs, storeys |-> ss, elements |-> es, hull |-> h]

EmptyModel == Model(<<>>, <<>>, <<>>, <<>>, LibRaises)

\* Whole models for runs of main.
MainModelBases ==
    { EmptyModel,
      Model(WithIds(<<SpaceKind(" Hal ", DefsNet5, ShapeTetra),
                      SpaceKind("  ", DefsNone, ShapeTetra)>>),
            <<Entity(DefsGross)>>, <<>>, <<>>, LibRaises),
      Model(WithIds(<<SpaceKind("Hal", DefsNone, ShapeFlat),
                      SpaceKind(" Hal ", DefsBad, ShapeOpen)>>),
            <<Entity(DefsNone)>>, <<Entity(DefsGross), Entity(DefsNone)>>,
            <<Element("IfcSlab", "None", ShapeFlat)>>, LibRaises),
      Model(WithIds(<<SpaceKind(None, DefsNet3, ShapeRaises)>>),
            <<>>, <<>>,
            <<Element("IfcSlab", "None", ShapeFlat),
              Element("IfcWallStandardCase", "True", ShapeTetra)>>, LibRaises) }

IfcPath == <<"u", "p", "l", "o", "a", "d", "s", "/", "a", "_", "h", "u", "i", "s", ".", "i", "f", "c">>
Outputs ==
    { <<"n", "e", "n", "2", "5", "8", "0", "_", "i", "n", "h", "o", "u", "d", "_", "r", "e", "s", "u", "l", "t", "a", "t", "e", "n", ".", "c", "s", "v">>,
      <<"o", "u", "t", ".", "c", "s", "v">>,
      <<"r", "e", "s", "u", "l", "t", "s", "/", "a", "_", "r", "e", "s", "u", "l", "t", ".", "x", "l", "s", "x">>,
      <<"a", ".", "c", "s", "v", "/", "o", ".", "c", "s", "v">> }

----------------------------------------------------------------------------
(* Initial values of the parts a specification does not use *)

Pending == [done |-> FALSE]

IdleQty  == obj = Entity(<<>>) /\ names = <<>> /\ qres = Pending
IdleMesh == mesh = [verts |-> <<>>, faces |-> <<>>, trimesh |-> LibRaises,
                    residue |-> FALSE]
            /\ mres = Pending
IdleCore == model = EmptyModel /\ net = Pending /\ gross = Pending
IdleMain == /\ args = [ifc |-> IfcPath, ifc_exists |-> TRUE, output |-> <<>>]
            /\ clock = 0 /\ fs = <<>> /\ dirs = {} /\ runs = 0 /\ outs = <<>>
IdleWeb  == thread = <<>> /\ sub = <<>> /\ results = {} /\ polls = <<>>
            /\ testruns = 0

----------------------------------------------------------------------------
(* SpecQty: one call of get_quantity_volume_from_obj *)

InitQty ==
    /\ HAS_GEOM = TRUE /\ HAS_TRIMESH = TRUE /\ HAS_SCIPY = TRUE
    /\ obj \in {Entity(rels) : rels \in SeqUpTo(RelKinds, MaxRels)}
    /\ names \in CandidateNames
    /\ qres = Pending
    /\ IdleMesh /\ IdleCore /\ IdleMain /\ IdleWeb

ResolveQuantity ==
    /\ ~qres.done
    /\ qres' = [done |-> TRUE, value |-> get_quantity_volume_from_obj(obj, names)]
    /\ UNCHANGED <<flagVars, obj, names, meshVars, coreVars, mainVars, webVars>>

NextQty == ResolveQuantity

SpecQty == InitQty /\ [][NextQty]_vars

----------------------------------------------------------------------------
(* SpecMesh: one call of volume_from_mesh *)

InitMesh ==
    /\ HAS_GEOM = TRUE /\ HAS_SCIPY = TRUE
    /\ HAS_TRIMESH \in BOOLEAN
    /\ \E vs \in SeqUpTo(Points, MaxVerts), fcs \in SeqUpTo(FaceSamples, MaxFaces) :
          mesh \in {[verts |-> vs, faces |-> fcs, trimesh |-> tm, residue |-> r] :
                       tm \in IF HAS_TRIMESH THEN TrimeshOutcomes ELSE {LibRaises},
                       r \in IF CanLeaveResidue(vs, fcs) THEN BOOLEAN ELSE {FALSE}}
    /\ mres = Pending
    /\ IdleQty /\ IdleCore /\ IdleMain /\ IdleWeb

EstimateMeshVolume ==
    /\ ~mres.done
    /\ mres' = [done |-> TRUE, value |-> volume_from_mesh(mesh).value,
                tried |-> volume_from_mesh(mesh).tried]
    /\ UNCHANGED <<flagVars, qtyVars, mesh, coreVars, mainVars, webVars>>

NextMesh == EstimateMeshVolume

SpecMesh == InitMesh /\ [][NextMesh]_vars

----------------------------------------------------------------------------
(* SpecNet: one call of compute_net_volume_spaces *)

InitNet ==
    /\ HAS_SCIPY = TRUE
    /\ HAS_GEOM \in BOOLEAN
    /\ HAS_TRIMESH \in BOOLEAN
    /\ model \in {Model(WithIds(ks), <<>>, <<>>, <<>>, LibRaises) :
                     ks \in SeqUpTo(SpaceKinds, MaxSpaces)}
    /\ net = Pending /\ gross = Pending
    /\ IdleQty /\ IdleMesh /\ IdleMain /\ IdleWeb

ComputeNet ==
    /\ ~net.done
    /\ net' = [done |-> TRUE,
               net_total |-> compute_net_volume_spaces(model).net_total,
               rows |-> compute_net_volume_spaces(model).rows]
    /\ UNCHANGED <<flagVars, qtyVars, meshVars, model, gross, mainVars, webVars>>

NextNet == ComputeNet

SpecNet == InitNet /\ [][NextNet]_vars

----------------------------------------------------------------------------
(* SpecGross: one call of compute_gross_volume *)

InitGross ==
    /\ HAS_TRIMESH = TRUE
    /\ HAS_GEOM \in BOOLEAN
    /\ HAS_SCIPY \in BOOLEAN
    /\ \E bs \in SeqUpTo(GrossDefs, MaxBuildings),
          ss \in SeqUpTo(GrossDefs, MaxStoreys),
          es \in SeqUpTo(ElementKinds, MaxElements) :
          \E h \in HullOutcomes(collect_building_vertices([elements |-> es])) :
             model = Model(<<>>, [i \in DOMAIN bs |-> Entity(bs[i])],
                           [i \in DOMAIN ss |-> Entity(ss[i])], es, h)
    /\ net = Pending /\ gross = Pending
    /\ IdleQty /\ IdleMesh /\ IdleMain /\ IdleWeb

ComputeGross ==
    /\ ~gross.done
    /\ gross' = [done |-> TRUE,
                 value |-> compute_gross_volume(model).value,
                 method |-> compute_gross_volume(model).method,
                 consulted |-> compute_gross_volume(model).consulted]
    /\ UNCHANGED <<flagVars, qtyVars, meshVars, model, net, mainVars, webVars>>

NextGross == ComputeGross

SpecGross == InitGross /\ [][NextGross]_vars

----------------------------------------------------------------------------
(* SpecMain: runs of main on one unmodified model, the clock advancing *)

InitMain ==
    /\ HAS_TRIMESH = TRUE /\ HAS_SCIPY = TRUE
    /\ HAS_GEOM \in BOOLEAN
    /\ \E b \in MainModelBases :
          \E h \in HullOutcomes(collect_building_vertices(b)) :
             model = Model(b.spaces, b.buildings, b.storeys, b.elements, h)
    /\ net = Pending /\ gross = Pending
    /\ args \in {[ifc |-> IfcPath, ifc_exists |-> x, output |-> o] :
                    x \in BOOLEAN, o \in Outputs}
    /\ clock = 0 /\ fs = <<>> /\ dirs = {} /\ runs = 0 /\ outs = <<>>
    /\ IdleQty /\ IdleMesh /\ IdleWeb

\* Time passes between and before the runs.
Tick ==
    /\ clock < MaxClock
    /\ clock' = clock + 1
    /\ UNCHANGED <<flagVars, qtyVars, meshVars, coreVars, args, fs, dirs, runs, outs, webVars>>

\* One run of main; outs records when it ran, how it ended and the files it
\* left.
RunMain ==
    /\ runs < MaxRuns
    /\ LET r == main(fs, dirs, model, args, clock)
       IN  /\ fs' = r.files
           /\ dirs' = r.dirs
           /\ outs' = Append(outs, [at |-> clock, files |-> r.files,
                                    status |-> r.status])
    /\ runs' = runs + 1
    /\ UNCHANGED <<flagVars, qtyVars, meshVars, coreVars, args, clock, webVars>>

NextMain == Tick \/ RunMain

SpecMain == InitMain /\ [][NextMain]_vars

----------------------------------------------------------------------------
(* SpecWeb: uploads, their job threads and subprocesses, and /logs polls *)

Tasks == 1..MaxTasks

\* A subprocess that has not been started.
NoSub == [pc |-> "none", rows |-> FALSE]

InitWeb ==
    /\ HAS_GEOM = TRUE /\ HAS_TRIMESH = TRUE /\ HAS_SCIPY = TRUE
    /\ thread = [t \in Tasks |-> "none"]
    /\ sub = [t \in Tasks |-> NoSub]
    /\ results \in {{}, {LeftoverResult}}
    /\ testruns = 0
    /\ polls = [t \in Tasks |-> [served |-> FALSE, done |-> FALSE, written |-> FALSE]]
    /\ IdleQty /\ IdleMesh /\ IdleCore /\ IdleMain

WebFrame == UNCHANGED <<flagVars, qtyVars, meshVars, coreVars, mainVars>>

\* index (POST): save the upload and start the thread running run_script.
Upload(t) ==
    /\ thread[t] = "none"
    /\ thread' = [thread EXCEPT ![t] = "started"]
    /\ UNCHANGED <<sub, results, polls, testruns>> /\ WebFrame

\* run_script, line 29: open(log_path, 'w') raises outside the try; the
\* exception ends the thread and no subprocess is started.
ThreadOpenLogRaises(t) ==
    /\ thread[t] = "started"
    /\ thread' = [thread EXCEPT ![t] = "raised"]
    /\ UNCHANGED <<sub, results, polls, testruns>> /\ WebFrame

\* run_script, lines 30-35 and 38-39: Popen raises, the except branch prints
\* the error and run_script returns; no subprocess is started.
ThreadPopenRaises(t) ==
    /\ thread[t] = "started"
    /\ thread' = [thread EXCEPT ![t] = "finished"]
    /\ UNCHANGED <<sub, results, polls, testruns>> /\ WebFrame

\* run_script, lines 29-35: open the log and start the subprocess with
\* -o result_path; rows tells whether the uploaded model holds an IfcSpace.
ThreadPopen(t) ==
    /\ thread[t] = "started"
    /\ thread' = [thread EXCEPT ![t] = "waiting"]
    /\ \E r \in BOOLEAN : sub' = [sub EXCEPT ![t] = [pc |-> "running", rows |-> r]]
    /\ UNCHANGED <<results, polls, testruns>> /\ WebFrame

\* run_script, lines 36-37: process.wait() returns once the subprocess has
\* exited.
ThreadWaitReturns(t) ==
    /\ thread[t] = "waiting" /\ sub[t].pc = "exited"
    /\ thread' = [thread EXCEPT ![t] = "finished"]
    /\ UNCHANGED <<sub, results, polls, testruns>> /\ WebFrame

\* main in the subprocess ends before writing: sys.exit(1) at line 242 or an
\* exception while the model is opened or measured.
SubFails(t) ==
    /\ sub[t].pc = "running"
    /\ sub' = [sub EXCEPT ![t].pc = "exited"]
    /\ UNCHANGED <<thread, results, polls, testruns>> /\ WebFrame

\* main, line 263: open(summary_file, 'w') creates the file.
SubOpenSummary(t) ==
    /\ sub[t].pc = "running"
    /\ sub' = [sub EXCEPT ![t].pc = "summary_open"]
    /\ results' = results \cup {SummaryFile(ResultPath(t))}
    /\ UNCHANGED <<thread, polls, testruns>> /\ WebFrame

\* main, lines 264-276: the summary is written and the file closed.
SubCloseSummary(t) ==
    /\ sub[t].pc = "summary_open"
    /\ sub' = [sub EXCEPT ![t].pc = "summary_closed"]
    /\ UNCHANGED <<thread, results, polls, testruns>> /\ WebFrame

\* main, lines 279-280: if rows, open(spaces_file, 'w').
SubOpenSpaces(t) ==
    /\ sub[t].pc = "summary_closed" /\ sub[t].rows
    /\ sub' = [sub EXCEPT ![t].pc = "spaces_open"]
    /\ results' = results \cup {SpacesFile(ResultPath(t))}
    /\ UNCHANGED <<thread, polls, testruns>> /\ WebFrame

\* main, lines 281-283: the rows are written and the file closed.
SubCloseSpaces(t) ==
    /\ sub[t].pc = "spaces_open"
    /\ sub' = [sub EXCEPT ![t].pc = "spaces_closed"]
    /\ UNCHANGED <<thread, results, polls, testruns>> /\ WebFrame

\* main, lines 285-287: main returns after its last file is closed and the
\* subprocess exits.
SubExits(t) ==
    /\ \/ sub[t].pc = "spaces_closed"
       \/ sub[t].pc = "summary_closed" /\ ~sub[t].rows
    /\ sub' = [sub EXCEPT ![t].pc = "exited"]
    /\ UNCHANGED <<thread, results, polls, testruns>> /\ WebFrame

\* The subprocess of task t has written and closed everything it writes to
\* the result path: it is past its last close.
ResultWritten(t) ==
    \/ sub[t].pc = "spaces_closed"
    \/ sub[t].pc = "summary_closed" /\ ~sub[t].rows
    \/ sub[t].pc = "exited" /\ SummaryFile(ResultPath(t)) \in results

\* logs(task_id): the response, with whether the task's subprocess had written
\* and closed its result file when the request was served.
Poll(t) ==
    /\ polls' = [polls EXCEPT ![t] = [served |-> TRUE,
                                      done |-> LogsDone(results, t),
                                      written |-> ResultWritten(t)]]
    /\ UNCHANGED <<thread, sub, results, testruns>> /\ WebFrame

\* test_subprocess (GET /test-subprocess): writes its test file and returns.
TestSubprocess ==
    /\ results' = results \cup {TestSubprocessFile}
    /\ UNCHANGED <<thread, sub, polls, testruns>> /\ WebFrame

\* test_subprocess_run (GET /test-subprocess-run), lines 96-103: opens its
\* test file and starts the echo subprocess writing to it.
TestSubprocessRunPopen ==
    /\ testruns < MaxTestRuns
    /\ testruns' = testruns + 1
    /\ results' = results \cup {TestSubprocessRunFile}
    /\ UNCHANGED <<thread, sub, polls>> /\ WebFrame

\* test_subprocess_run, lines 104-105: process.wait() returns, the file is
\* closed and the handler returns.
TestSubprocessRunWaitReturns ==
    /\ testruns > 0
    /\ testruns' = testruns - 1
    /\ UNCHANGED <<thread, sub, results, polls>> /\ WebFrame

NextWeb ==
    \/ \E t \in Tasks :
        \/ Upload(t) \/ ThreadOpenLogRaises(t) \/ ThreadPopenRaises(t)
        \/ ThreadPopen(t) \/ ThreadWaitReturns(t)
        \/ SubFails(t) \/ SubOpenSummary(t) \/ SubCloseSummary(t)
        \/ SubOpenSpaces(t) \/ SubCloseSpaces(t) \/ SubExits(t)
        \/ Poll(t)
    \/ TestSubprocess
    \/ TestSubprocessRunPopen
    \/ TestSubprocessRunWaitReturns

SpecWeb == InitWeb /\ [][NextWeb]_vars

----------------------------------------------------------------------------
(* Properties of compute_net_volume_spaces (SpecNet) *)

NoQuantity(sp) == get_quantity_volume_from_obj(sp, NetNames).t # "num"

\* create_shape returns and the mesh has vertices and triangles.
TessellationYieldsMesh(sp) ==
    /\ sp.shape.create = "ok" /\ sp.shape.geometry = "ok"
    /\ Len(sp.shape.verts) > 0 /\ Len(sp.shape.faces) > 0

\* No matching quantity, and tessellation unavailable, failing or raising.
ResolutionFails(sp) == NoQuantity(sp) /\ (~HAS_GEOM \/ ~TessellationYieldsMesh(sp))

SumRows(rows) == SumSeq([i \in DOMAIN rows |-> rows[i].Netto_m3])

\* C1: compute_net_volume_spaces returns exactly one row per IfcSpace, in model
\* order and with that space's GlobalId, whatever HAS_GEOM is; a space whose
\* volume resolution fails still has its row, with value 0.0 and method Unavail.
C1_OneRowPerSpace ==
    net.done =>
        /\ Len(net.rows) = Len(model.spaces)
        /\ \A i \in DOMAIN model.spaces :
              /\ net.rows[i].GlobalId = model.spaces[i].GlobalId
              /\ ResolutionFails(model.spaces[i]) =>
                    net.rows[i].Netto_m3 = 0 /\ net.rows[i].Methode = "Unavail"

\* C1 witness: two spaces, the first failing by a raising create_shape with the
\* geometry kernel present, the second resolved.
C1_Witness ==
    /\ net.done /\ HAS_GEOM /\ Len(model.spaces) = 2
    /\ ResolutionFails(model.spaces[1]) /\ model.spaces[1].shape.create = "raise"
    /\ ~ResolutionFails(model.spaces[2])
    /\ net.rows[1].Methode = "Unavail" /\ net.rows[2].Methode # "Unavail"

\* C2 as claimed: the net total equals the sum of the row values, each rounded
\* to 3 decimals.  Stated in its weakest reading, with the total as the summary
\* reports it (rounded to 3 decimals); equality of the unrounded total with the
\* sum of the rounded rows would imply it.
C2_TotalEqualsSumOfRows ==
    net.done => Round3(net.net_total) = SumRows(net.rows)

\* C2 amended: the net total is the sum of the spaces' unrounded volumes, each
\* row value is its space's volume rounded to 3 decimals, and so the total and
\* the sum of the row values differ by less than 0.0005 m3 (at most 2 U) per row.
C2_TotalIsSumOfUnroundedVolumes ==
    net.done =>
        /\ net.net_total =
              SumSeq([i \in DOMAIN model.spaces |-> ResolveSpace(model.spaces[i]).vol])
        /\ \A i \in DOMAIN model.spaces :
              net.rows[i].Netto_m3 = Round3(ResolveSpace(model.spaces[i]).vol)
        /\ Abs(net.net_total - 5 * SumRows(net.rows)) <= 2 * Len(net.rows)

\* C2 witness: a finished aggregation whose reported total is not the sum of
\* its row values.
C2_Witness ==
    /\ net.done /\ Len(net.rows) = 2
    /\ Round3(net.net_total) # SumRows(net.rows)

\* C4 as claimed: for a space with no matching quantity the tag is
\* Geometry(mesh) whenever HAS_GEOM is true (an empty mesh included), and
\* Unavail is used only when HAS_GEOM is false.
C4_GeometryTagWheneverGeom ==
    net.done =>
        \A i \in DOMAIN model.spaces :
            NoQuantity(model.spaces[i]) =>
                /\ HAS_GEOM => net.rows[i].Methode = "Geometry(mesh)"
                /\ net.rows[i].Methode = "Unavail" => ~HAS_GEOM

\* C4 amended: for a space with no matching quantity the tag is Geometry(mesh)
\* exactly when HAS_GEOM is true and tessellation gives a mesh with vertices and
\* triangles (also when its estimated volume is 0); otherwise, with HAS_GEOM
\* false, create_shape raising or an empty mesh, it is Unavail with value 0.0.
C4_GeometryTagIffMesh ==
    net.done =>
        \A i \in DOMAIN model.spaces :
            NoQuantity(model.spaces[i]) =>
                /\ net.rows[i].Methode \in {"Geometry(mesh)", "Unavail"}
                /\ net.rows[i].Methode = "Geometry(mesh)"
                      <=> (HAS_GEOM /\ TessellationYieldsMesh(model.spaces[i]))
                /\ net.rows[i].Methode = "Unavail" => net.rows[i].Netto_m3 = 0

\* C4 witness: with HAS_GEOM true, a flat mesh of volume 0 tagged Geometry(mesh)
\* beside an empty mesh tagged Unavail.
C4_Witness ==
    /\ net.done /\ HAS_GEOM /\ Len(model.spaces) = 2
    /\ NoQuantity(model.spaces[1]) /\ NoQuantity(model.spaces[2])
    /\ TessellationYieldsMesh(model.spaces[1])
    /\ net.rows[1].Methode = "Geometry(mesh)" /\ net.rows[1].Netto_m3 = 0
    /\ model.spaces[2].shape.create = "ok" /\ Len(model.spaces[2].shape.verts) = 0
    /\ net.rows[2].Methode = "Unavail"

----------------------------------------------------------------------------
(* Properties of compute_gross_volume (SpecGross) *)

\* The buildings that carry a matching quantity, and the value of the first.
BuildingsWithQuantity(md) ==
    {i \in DOMAIN md.buildings :
        get_quantity_volume_from_obj(md.buildings[i], GrossNames).t = "num"}

FirstBuildingValue(md) ==
    LET i == CHOOSE k \in BuildingsWithQuantity(md) :
                 \A j \in BuildingsWithQuantity(md) : k <= j
    IN  get_quantity_volume_from_obj(md.buildings[i], GrossNames).v

StoreysWithQuantity(md) ==
    {i \in DOMAIN md.storeys :
        get_quantity_volume_from_obj(md.storeys[i], GrossNames).t = "num"}

StoreyValues(md) ==
    [i \in DOMAIN md.storeys |->
        IF i \in StoreysWithQuantity(md)
        THEN get_quantity_volume_from_obj(md.storeys[i], GrossNames).v ELSE 0]

StoreyTierPositive(md) ==
    StoreysWithQuantity(md) # {} /\ SumSeq(StoreyValues(md)) > 0

HullPositive(md) ==
    /\ Len(collect_building_vertices(md)) > 0
    /\ HAS_SCIPY /\ ~md.hull.err /\ md.hull.volume > 0

\* The tag of the first tier, in the order building, storeys, hull, bounding
\* box, that yields a strictly positive value; None when none does.
FirstPositiveTier(md) ==
    IF BuildingsWithQuantity(md) # {} /\ FirstBuildingValue(md) > 0
        THEN "IfcBuilding:GrossVolume"
    ELSE IF StoreyTierPositive(md) THEN "Sum Storey:GrossVolume"
    ELSE IF HullPositive(md) THEN "ConvexHull(external)"
    ELSE IF Len(collect_building_vertices(md)) > 0
            /\ BBoxVolume(collect_building_vertices(md)) > 0
        THEN "BoundingBox(external)"
    ELSE "None"

\* The same with success as the code has it: a building quantity of any value,
\* a positive storey sum, a positive hull, a bounding box of any value.
FirstSucceedingTier(md) ==
    IF BuildingsWithQuantity(md) # {}
        THEN [method |-> "IfcBuilding:GrossVolume", value |-> FirstBuildingValue(md)]
    ELSE IF StoreyTierPositive(md)
        THEN [method |-> "Sum Storey:GrossVolume", value |-> SumSeq(StoreyValues(md))]
    ELSE IF HullPositive(md)
        THEN [method |-> "ConvexHull(external)", value |-> md.hull.volume]
    ELSE IF Len(collect_building_vertices(md)) > 0
        THEN [method |-> "BoundingBox(external)",
              value |-> BBoxVolume(collect_building_vertices(md))]
    ELSE [method |-> "None", value |-> 0]

\* After the tier that answered, nothing lower was entered.
NoLowerTierConsulted ==
    /\ gross.method = "IfcBuilding:GrossVolume" => gross.consulted = <<"IfcBuilding">>
    /\ gross.method = "Sum Storey:GrossVolume" =>
          gross.consulted = <<"IfcBuilding", "Storey">>
    /\ gross.method = "ConvexHull(external)" =>
          "BoundingBox" \notin Range(gross.consulted)

\* C3 as claimed: the returned tag is that of the first tier, in the order
\* building quantity, storey sum, convex hull, bounding box, None, that succeeds
\* with a positive value, and no lower tier is consulted after it.
C3_FirstPositiveTierWins ==
    gross.done => gross.method = FirstPositiveTier(model) /\ NoLowerTierConsulted

\* C3 amended: the returned tag and value are those of the first tier that
\* succeeds, where the building tier succeeds with the first building quantity
\* found whatever its value (zero included), the storey tier with a positive
\* sum, the hull tier with a positive volume, and the bounding-box tier whenever
\* vertices were collected (a zero box included); no lower tier is consulted.
C3_FirstSucceedingTierWins ==
    gross.done =>
        /\ gross.method = FirstSucceedingTier(model).method
        /\ gross.value = FirstSucceedingTier(model).value
        /\ NoLowerTierConsulted

\* C3 witness: a building quantity of 0 answers although a storey carries a
\* positive quantity and envelope elements exist; neither was consulted.
C3_Witness ==
    /\ gross.done /\ gross.method = "IfcBuilding:GrossVolume" /\ gross.value = 0
    /\ StoreyTierPositive(model) /\ Len(model.elements) > 0
    /\ gross.consulted = <<"IfcBuilding">>

\* C7: with no quantity tier succeeding and envelope vertices collected, a hull
\* that is degenerate (zero volume or failing construction) or unavailable gives
\* the bounding-box volume tagged BoundingBox(external); ConvexHull(external) is
\* never returned with a value that is not strictly positive.
C7_DegenerateHullFallsThrough ==
    gross.done =>
        /\ gross.method = "ConvexHull(external)" => gross.value > 0
        /\ ( /\ BuildingsWithQuantity(model) = {}
             /\ ~StoreyTierPositive(model)
             /\ Len(collect_building_vertices(model)) > 0
             /\ (~HAS_SCIPY \/ model.hull.err \/ model.hull.volume <= 0) )
           => /\ gross.method = "BoundingBox(external)"
              /\ gross.value = BBoxVolume(collect_building_vertices(model))

\* C7 witness: scipy present, four coplanar envelope vertices, a hull of volume
\* 0, and the result tagged BoundingBox(external).
C7_Witness ==
    /\ gross.done /\ HAS_SCIPY
    /\ Len(collect_building_vertices(model)) = 4
    /\ Degenerate(collect_building_vertices(model))
    /\ ~model.hull.err /\ model.hull.volume = 0
    /\ gross.method = "BoundingBox(external)"

----------------------------------------------------------------------------
(* Properties of volume_from_mesh (SpecMesh) *)

EmptyMesh(m) == Len(m.verts) = 0 \/ Len(m.faces) = 0

TrimeshYields(m) ==
    IF HAS_TRIMESH /\ ~m.trimesh.err THEN m.trimesh.volume ELSE 0

\* The corner of a triangle named by index i, as numpy reads it: from the
\* start when i >= 0, from the end when i < 0.
Corner(m, i) == IF i >= 0 THEN m.verts[i + 1] ELSE m.verts[Len(m.verts) + i + 1]

\* Some triangle names a vertex that the array does not hold.
IndexFails(m) ==
    \E i \in DOMAIN m.faces : \E k \in 1..3 :
        m.faces[i][k] >= Len(m.verts) \/ m.faces[i][k] < 0 - Len(m.verts)

\* The signed volume, in U, of the tetrahedron from the origin to triangle i.
TetraSigned(m, i) ==
    LET a == Corner(m, m.faces[i][1])
        b == Corner(m, m.faces[i][2])
        c == Corner(m, m.faces[i][3])
    IN  a[1] * b[2] * c[3] + a[2] * b[3] * c[1] + a[3] * b[1] * c[2]
      - a[3] * b[2] * c[1] - a[2] * b[1] * c[3] - a[1] * b[3] * c[2]

\* What the signed-tetrahedron tier yields, in whole units U: nothing when it
\* fails.
SignedYields(m) ==
    IF IndexFails(m) THEN 0
    ELSE Abs(SumSeq([i \in DOMAIN m.faces |-> TetraSigned(m, i)]))

\* The value the signed-tetrahedron tier computes is strictly positive: a
\* positive number of units, or the rounding residue of a sum that is zero in
\* exact arithmetic.
SignedPositive(m) == ~IndexFails(m) /\ (SignedYields(m) > 0 \/ m.residue)

\* C8: volume_from_mesh returns a value >= 0; an empty mesh returns 0.0 with no
\* tier attempted; otherwise the result is that of the first tier, in the order
\* trimesh (when available), |signed-tetrahedron sum|, bounding box, that yields
\* a strictly positive value, a zero or failing tier advancing to the next, and
\* the bounding-box value when both earlier tiers yield nothing positive.  What
\* a tier yields is the value it computes, in double precision for the signed
\* sum.
C8_FirstPositiveTier ==
    mres.done =>
        /\ mres.value >= 0
        /\ EmptyMesh(mesh) => mres.value = 0 /\ mres.tried = <<>>
        /\ ~EmptyMesh(mesh) =>
              /\ TrimeshYields(mesh) > 0 =>
                    mres.value = TrimeshYields(mesh) /\ mres.tried = <<"trimesh">>
              /\ TrimeshYields(mesh) <= 0 /\ SignedPositive(mesh) =>
                    /\ mres.value = SignedYields(mesh)
                    /\ mres.tried = (IF HAS_TRIMESH THEN <<"trimesh">> ELSE <<>>)
                                    \o <<"signed">>
              /\ TrimeshYields(mesh) <= 0 /\ ~SignedPositive(mesh) =>
                    /\ mres.value = BBoxVolume(mesh.verts)
                    /\ mres.tried = (IF HAS_TRIMESH THEN <<"trimesh">> ELSE <<>>)
                                    \o <<"signed", "bbox">>

\* C8 witness: trimesh present and giving volume 0, a signed sum of 0 over
\* triangles whose indices are all in range, one of them counted from the end,
\* and a positive bounding box returned.
C8_Witness ==
    /\ mres.done /\ ~EmptyMesh(mesh) /\ HAS_TRIMESH
    /\ ~mesh.trimesh.err /\ mesh.trimesh.volume = 0
    /\ ~IndexFails(mesh) /\ ~mesh.residue
    /\ \E i \in DOMAIN mesh.faces : \E k \in 1..3 : mesh.faces[i][k] < 0
    /\ SumSeq([i \in DOMAIN mesh.faces |-> TetraSigned(mesh, i)]) = 0
    /\ mres.value = BBoxVolume(mesh.verts) /\ mres.value > 0

----------------------------------------------------------------------------
(* Properties of get_quantity_volume_from_obj (SpecQty) *)

\* The scan with every failure confined to its relationship: a relationship
\* that raises counts as no match and the next one is looked at.
RECURSIVE IsolatedScan(_, _, _)
IsolatedScan(rels, i, cand) ==
    IF i > Len(rels) THEN NoneVal
    ELSE LET o == RelOutcome(rels[i], cand)
         IN  IF o.st = "ret" THEN Num(o.v) ELSE IsolatedScan(rels, i + 1, cand)

\* C5: an extraction failure on one relationship counts only as no match for
\* that relationship; scanning continues in model order, a later relationship
\* with a valid matching quantity is still returned, and absent is returned
\* only when no relationship matches.
C5_FailureConfinedToRelationship ==
    qres.done => qres.value = IsolatedScan(obj.IsDefinedBy, 1, names)

----------------------------------------------------------------------------
(* Properties of main (SpecMain) *)

\* A file with the Datum of its summary row blanked.
Undated(f) ==
    IF Len(f) >= 2 /\ Head(f) = SummaryHeader
    THEN <<f[1], [f[2] EXCEPT !.Datum = 0]>> \o SubSeq(f, 3, Len(f))
    ELSE f

UndatedFiles(files) == [p \in DOMAIN files |-> Undated(files[p])]

\* C6 as claimed: two runs of main on the same unmodified model with the same
\* flags leave byte-identical summary and per-space outputs, whenever they run.
C6_RunsLeaveIdenticalFiles ==
    \A i \in DOMAIN outs, j \in DOMAIN outs : outs[i].files = outs[j].files

\* C6 amended: two such runs leave identical per-space outputs and summaries
\* that are identical except for the Datum field, which holds the minute of the
\* run; runs within the same minute leave byte-identical outputs.
C6_RunsDifferOnlyInDatum ==
    \A i \in DOMAIN outs, j \in DOMAIN outs :
        /\ UndatedFiles(outs[i].files) = UndatedFiles(outs[j].files)
        /\ outs[i].at = outs[j].at => outs[i].files = outs[j].files

\* C6 witness: two runs in different minutes whose summaries exist and differ.
C6_Witness ==
    /\ Len(outs) = 2 /\ outs[1].at # outs[2].at
    /\ SummaryFile(args.output) \in DOMAIN outs[2].files
    /\ SummaryFile(args.output) # SpacesFile(args.output)
    /\ model.spaces # <<>>
    /\ outs[1].files # outs[2].files

\* C9: for every output path the summary and the per-space table go to two
\* distinct files, so that after main has run on a model with at least one
\* space the summary written first is still there, not overwritten.
C9_SummaryKept ==
    (runs > 0 /\ outs[runs].status = "ok" /\ model.spaces # <<>>) =>
        /\ SummaryFile(args.output) # SpacesFile(args.output)
        /\ SummaryFile(args.output) \in DOMAIN fs
        /\ Head(fs[SummaryFile(args.output)]) = SummaryHeader

----------------------------------------------------------------------------
(* Properties of the web app (SpecWeb) *)

\* C10: /logs reports done = true for a task only after the task's subprocess
\* has finished writing and closing its result file; a poll served while the
\* subprocess is still writing reports done = false.
C10_DoneOnlyAfterSubprocessFinished ==
    \A t \in Tasks : (polls[t].served /\ polls[t].done) => polls[t].written

====
